---- MODULE Spec2Model ----
(***************************************************************************)
(* FlipRedact: PII detection and redaction.                                *)
(*                                                                         *)
(*   src/model/model.py   luhn_ok, regex_spans, ml_spans, merge_spans,     *)
(*                        POLICY, redact, detect_pii                       *)
(*   src/main.py          TEXT_STORE, set_text, get_text, check_text       *)
(*                                                                         *)
(* Text is a sequence of one-character strings and offsets are 0-based,    *)
(* end-exclusive, as in the source.  Scores are hundredths (1.0 = 100).    *)
(***************************************************************************)
EXTENDS Integers, Sequences, FiniteSets, TLC

VARIABLES
    pc,            \* which step of the specification at hand has been taken
    card,          \* luhn_ok: the argument s
    luhn_result,   \* luhn_ok: the returned boolean
    cands,         \* merge_spans: the argument spans
    merged,        \* merge_spans(cands)
    remerged,      \* merge_spans(merged)
    toks,          \* ml_spans: the recognizer's token stream for the text
    threshold,     \* ml_spans: the argument threshold
    ner_out,       \* ml_spans: the returned spans
    text,          \* detect_pii / redact: the argument text
    recog,         \* detect_pii / redact: what the recognizer does on text
    ret,           \* detect_pii / redact: what the caller gets
    TEXT_STORE,    \* main.py: TEXT_STORE["text"]
    request,       \* main.py: the request being answered
    response       \* main.py: the response to it

vars == <<pc, card, luhn_result, cands, merged, remerged, toks, threshold,
          ner_out, text, recog, ret, TEXT_STORE, request, response>>

----------------------------------------------------------------------------
(* Generic helpers                                                         *)

SeqsUpTo(S, n) == UNION {[1..k -> S] : k \in 0..n}

Max(a, b) == IF a > b THEN a ELSE b

\* Python slice s[lo:hi] for 0 <= lo, hi (clamped to len(s); empty if hi <= lo)
Slice(s, lo, hi) ==
    LET h == IF hi > Len(s) THEN Len(s) ELSE hi
    IN  IF lo >= h THEN <<>> ELSE SubSeq(s, lo + 1, h)

Reverse(s) == [i \in 1..Len(s) |-> s[Len(s) + 1 - i]]

RECURSIVE Flatten(_)
Flatten(ss) == IF ss = <<>> THEN <<>> ELSE Head(ss) \o Flatten(Tail(ss))

\* needle occurs in hay as a contiguous substring
Contains(hay, needle) ==
    \E i \in 0..(Len(hay) - Len(needle)) :
        \A k \in 1..Len(needle) : hay[i + k] = needle[k]

----------------------------------------------------------------------------
(* luhn_ok  (src/model/model.py:20-30, repeated in preprocess.py:16-26)    *)

DigitChars == {"0", "1", "2", "3", "4", "5", "6", "7", "8", "9"}

\* int(c) for a digit character
DigitVal(c) ==
    CASE c = "0" -> 0 [] c = "1" -> 1 [] c = "2" -> 2 [] c = "3" -> 3
      [] c = "4" -> 4 [] c = "5" -> 5 [] c = "6" -> 6 [] c = "7" -> 7
      [] c = "8" -> 8 [] c = "9" -> 9

IsDigit(c) == c \in DigitChars

\* [int(c) for c in re.sub(r"\D", "", s)]
DigitsOf(s) ==
    LET kept == SelectSeq(s, IsDigit)
    IN  [i \in 1..Len(kept) |-> DigitVal(kept[i])]

\* if len(digits) < 13: return False
LuhnMinDigits == 13

\* d = d * 2; if d > 9: d -= 9
LuhnDouble(d) == IF d * 2 > 9 THEN d * 2 - 9 ELSE d * 2

\* parity = (len(digits) - 2) % 2
LuhnParity(digits) == (Len(digits) - 2) % 2

\* the loop over enumerate(digits[::-1]), positions i = 0 .. n-1
RECURSIVE LuhnChecksum(_, _, _)
LuhnChecksum(rev, parity, i) ==
    IF i >= Len(rev) THEN 0
    ELSE (IF i % 2 = parity THEN LuhnDouble(rev[i + 1]) ELSE rev[i + 1])
         + LuhnChecksum(rev, parity, i + 1)

luhn_ok(s) ==
    LET digits == DigitsOf(s)
    IN  IF Len(digits) < LuhnMinDigits THEN FALSE
        ELSE LuhnChecksum(Reverse(digits), LuhnParity(digits), 0) % 10 = 0

----------------------------------------------------------------------------
(* merge_spans  (src/model/model.py:89-98)                                 *)

Span(st, en, lab, sc) == [start |-> st, end |-> en, label |-> lab, score |-> sc]

\* key=lambda s: (s["start"], -s["end"]), compared as Python tuples
SortKeyLE(a, b) ==
    \/ a.start < b.start
    \/ a.start = b.start /\ (0 - a.end) <= (0 - b.end)

\* s placed behind every element whose key is <= its own (sorted() is stable)
InsertByKey(sorted, s) ==
    LET later == {i \in 1..Len(sorted) : ~SortKeyLE(sorted[i], s)}
        at == IF later = {} THEN Len(sorted) + 1
              ELSE CHOOSE i \in later : \A j \in later : i <= j
    IN  SubSeq(sorted, 1, at - 1) \o <<s>> \o SubSeq(sorted, at, Len(sorted))

\* SortedSpans without the sort
SortedSpans_Unsorted(spans) == spans

RECURSIVE SortedSpans(_)
SortedSpans(spans) ==
    IF spans = <<>> THEN <<>>
    ELSE InsertByKey(SortedSpans(SubSeq(spans, 1, Len(spans) - 1)),
                     spans[Len(spans)])

\* Overlaps comparing against the last span's start instead of its end
Overlaps_ByStart(out, s) == out # <<>> /\ s.start <= out[Len(out)].start

\* if out and s["start"] <= out[-1]["end"]
Overlaps(out, s) == out # <<>> /\ s.start <= out[Len(out)].end

\* Replaces without its score clause
Replaces_LengthOnly(s, last) == s.end - s.start > last.end - last.start

\* (s longer than out[-1]) or (s["score"] > out[-1]["score"])
Replaces(s, last) ==
    \/ s.end - s.start > last.end - last.start
    \/ s.score > last.score

\* one iteration of "for s in spans"
MergeStep(out, s) ==
    IF Overlaps(out, s)
    THEN IF Replaces(s, out[Len(out)])
         THEN [out EXCEPT ![Len(out)] = s]
         ELSE out
    ELSE Append(out, s)

RECURSIVE MergeLoop(_, _)
MergeLoop(out, rest) ==
    IF rest = <<>> THEN out
    ELSE MergeLoop(MergeStep(out, Head(rest)), Tail(rest))

merge_spans(spans) == MergeLoop(<<>>, SortedSpans(spans))

----------------------------------------------------------------------------
(* ml_spans  (src/model/model.py:54-85)                                    *)
(*                                                                         *)
(* The tokenizer and the classifier are the external recognition           *)
(* capability: what they return for a text is an input.  A token is        *)
(* [st, en, label, score]: its offsets, id2label of the arg-max class and  *)
(* that class's probability.                                               *)

Token(st, en, lab, sc) == [st |-> st, en |-> en, label |-> lab, score |-> sc]

\* ner.config.id2label of the checkpoint named by MODEL
id2label ==
    {"O", "B-MISC", "I-MISC", "B-PER", "I-PER", "B-ORG", "I-ORG", "B-LOC", "I-LOC"}

\* pref, ent = (label.split("-") + [""])[:2]
Pref(label) ==
    CASE label = "O" -> "O"
      [] label \in {"B-MISC", "B-PER", "B-ORG", "B-LOC"} -> "B"
      [] label \in {"I-MISC", "I-PER", "I-ORG", "I-LOC"} -> "I"

Ent(label) ==
    CASE label = "O" -> ""
      [] label \in {"B-MISC", "I-MISC"} -> "MISC"
      [] label \in {"B-PER", "I-PER"} -> "PER"
      [] label \in {"B-ORG", "I-ORG"} -> "ORG"
      [] label \in {"B-LOC", "I-LOC"} -> "LOC"

\* threshold=0.6
DefaultThreshold == 60

\* if en == 0: continue
Skipped(tok) == tok.en = 0

\* if score < threshold or label == "O"
Dropped(tok, thr) == tok.score < thr \/ tok.label = "O"

\* if pref == "B" or cur is None or (cur and ent != cur["label"])
StartsSpan(cur, tok) ==
    \/ Pref(tok.label) = "B"
    \/ cur = <<>>
    \/ (cur # <<>> /\ Ent(tok.label) # cur[1].label)

\* cur = {"start": st, "end": en, "label": ent, "score": score}
OpenSpan(tok) == Span(tok.st, tok.en, Ent(tok.label), tok.score)

\* ExtendSpan taking the last token's score instead of the maximum
ExtendSpan_LastScore(c, tok) == [c EXCEPT !.end = tok.en, !.score = tok.score]

\* cur["end"] = en; cur["score"] = max(cur["score"], score)
ExtendSpan(c, tok) == [c EXCEPT !.end = tok.en, !.score = Max(c.score, tok.score)]

\* one iteration of "for i, (st, en) in enumerate(offsets)";
\* cur is <<>> for None and <<span>> for an open span
NerStep(st, tok, thr) ==
    IF Skipped(tok) THEN st
    ELSE IF Dropped(tok, thr)
         THEN [spans |-> st.spans \o st.cur, cur |-> <<>>]
    ELSE IF StartsSpan(st.cur, tok)
         THEN [spans |-> st.spans \o st.cur, cur |-> <<OpenSpan(tok)>>]
    ELSE [spans |-> st.spans, cur |-> <<ExtendSpan(st.cur[1], tok)>>]

RECURSIVE NerLoop(_, _, _)
NerLoop(st, rest, thr) ==
    IF rest = <<>> THEN st.spans \o st.cur      \* if cur: spans.append(cur)
    ELSE NerLoop(NerStep(st, Head(rest), thr), Tail(rest), thr)

\* the three remapping ifs, in order
Remap(label) ==
    LET a == IF label = "PER" THEN "PERSON" ELSE label
        b == IF a = "LOC" THEN "GPE" ELSE a
    IN  IF b = "MISC" THEN "ORG" ELSE b

ml_spans(tokens, thr) ==
    LET raw == NerLoop([spans |-> <<>>, cur |-> <<>>], tokens, thr)
    IN  [i \in 1..Len(raw) |-> [raw[i] EXCEPT !.label = Remap(raw[i].label)]]

----------------------------------------------------------------------------
(* regex_spans  (src/model/model.py:6-17, 33-43)                           *)
(*                                                                         *)
(* finditer of a pattern: the leftmost match from the scan position, the   *)
(* scan resuming at its end.  A match is <<start, end>>.                   *)

Letters ==
    {"a", "b", "c", "d", "e", "f", "g", "h", "i", "j", "k", "l", "m",
     "n", "o", "p", "q", "r", "s", "t", "u", "v", "w", "x", "y", "z",
     "A", "B", "C", "D", "E", "F", "G", "H", "I", "J", "K", "L", "M",
     "N", "O", "P", "Q", "R", "S", "T", "U", "V", "W", "X", "Y", "Z"}

\* [A-Za-z0-9._%+\-]
EmailLocalChars == Letters \cup DigitChars \cup {".", "_", "%", "+", "-"}

\* [A-Za-z0-9.\-]
EmailDomainChars == Letters \cup DigitChars \cup {".", "-"}

\* \s
Whitespace == {" ", "\t", "\n", "\r", "\f"}

\* the character at 0-based offset i, "" past the end
At(t, i) == IF i >= 0 /\ i < Len(t) THEN t[i + 1] ELSE ""

\* the end of the longest run of class characters that starts at offset i
RunStop(t, i, class) ==
    CHOOSE j \in i..Len(t) :
        /\ \A k \in i..(j - 1) : At(t, k) \in class
        /\ At(t, j) \notin class

\* EMAIL_RE matched at offset i: the end of the match, or -1.
\* The local part is the whole run up to "@"; the domain is cut at the last
\* "." of its run that two or more letters follow, which the TLD then takes.
EmailMatchEnd(t, i) ==
    LET p == RunStop(t, i, EmailLocalChars)
    IN  IF p = i \/ At(t, p) # "@" THEN -1
        ELSE LET q == RunStop(t, p + 1, EmailDomainChars)
                 dots == {d \in (p + 2)..(q - 1) :
                             /\ At(t, d) = "."
                             /\ RunStop(t, d + 1, Letters) - (d + 1) >= 2}
             IN  IF dots = {} THEN -1
                 ELSE RunStop(t, (CHOOSE d \in dots : \A e \in dots : e <= d) + 1,
                              Letters)

\* URL_RE matched at offset i: the end of the match, or -1
UrlMatchEnd(t, i) ==
    LET lit(k, w) == \A n \in 1..Len(w) : At(t, k + n - 1) = w[n]
        body == IF lit(i, <<"h", "t", "t", "p", "s", ":", "/", "/">>) THEN i + 8
                ELSE IF lit(i, <<"h", "t", "t", "p", ":", "/", "/">>) THEN i + 7
                ELSE -1
    IN  IF body < 0 THEN -1
        ELSE LET e == CHOOSE j \in body..Len(t) :
                        /\ \A k \in body..(j - 1) : At(t, k) \notin Whitespace \cup {""}
                        /\ At(t, j) \in Whitespace \cup {""}
             IN  IF e > body THEN e ELSE -1

RECURSIVE EmailFinditer(_, _)
EmailFinditer(t, pos) ==
    IF pos >= Len(t) THEN <<>>
    ELSE IF EmailMatchEnd(t, pos) >= 0
         THEN <<(<<pos, EmailMatchEnd(t, pos)>>)>> \o EmailFinditer(t, EmailMatchEnd(t, pos))
         ELSE EmailFinditer(t, pos + 1)

RECURSIVE UrlFinditer(_, _)
UrlFinditer(t, pos) ==
    IF pos >= Len(t) THEN <<>>
    ELSE IF UrlMatchEnd(t, pos) >= 0
         THEN <<(<<pos, UrlMatchEnd(t, pos)>>)>> \o UrlFinditer(t, UrlMatchEnd(t, pos))
         ELSE UrlFinditer(t, pos + 1)

\* IPV4_RE, SG_PHONE_RE, NRIC_RE and CC_RE match only text that holds a digit;
\* the texts of this model hold none, so their finditer yields nothing.
DigitPatternFinditer(t) == <<>>

\* spans.append({"start": m.start(), "end": m.end(), "label": lab, "score": 1.0})
PatternSpans(matches, lab) ==
    [k \in 1..Len(matches) |-> Span(matches[k][1], matches[k][2], lab, 100)]

\* for m in CC_RE.finditer(text): if luhn_ok(m.group())
CardPasses(t, m) == luhn_ok(Slice(t, m[1], m[2]))

regex_spans(t) ==
    LET cc == DigitPatternFinditer(t)
    IN  PatternSpans(EmailFinditer(t, 0), "EMAIL")
        \o PatternSpans(UrlFinditer(t, 0), "URL")
        \o PatternSpans(DigitPatternFinditer(t), "IP")
        \o PatternSpans(DigitPatternFinditer(t), "PHONE")
        \o PatternSpans(DigitPatternFinditer(t), "NATIONAL_ID")
        \o PatternSpans(SelectSeq(cc, LAMBDA m : CardPasses(t, m)), "CREDIT_CARD")

----------------------------------------------------------------------------
(* POLICY, redact, detect_pii  (src/model/model.py:100-114, 135-137)       *)

\* POLICY, with policy.get(label, "[REDACTED]")
Placeholder(label) ==
    CASE label = "EMAIL" -> <<"[", "E", "M", "A", "I", "L", "]">>
      [] label = "PHONE" -> <<"[", "P", "H", "O", "N", "E", "]">>
      [] label = "CREDIT_CARD" -> <<"[", "C", "A", "R", "D", "]">>
      [] label = "IP" -> <<"[", "I", "P", "]">>
      [] label = "URL" -> <<"[", "U", "R", "L", "]">>
      [] label = "PERSON" -> <<"[", "N", "A", "M", "E", "]">>
      [] label = "ORG" -> <<"[", "O", "R", "G", "]">>
      [] label = "GPE" -> <<"[", "L", "O", "C", "A", "T", "I", "O", "N", "]">>
      [] label = "ADDRESS" -> <<"[", "A", "D", "D", "R", "E", "S", "S", "]">>
      [] label = "NATIONAL_ID" -> <<"[", "I", "D", "]">>
      [] OTHER -> <<"[", "R", "E", "D", "A", "C", "T", "E", "D", "]">>

\* the loop of redact: res grows by text[last:start] and the placeholder
RECURSIVE RedactLoop(_, _, _, _)
RedactLoop(t, spans, res, last) ==
    IF spans = <<>> THEN res \o Slice(t, last, Len(t))
    ELSE RedactLoop(t, Tail(spans),
                    res \o Slice(t, last, Head(spans).start)
                        \o Placeholder(Head(spans).label),
                    Head(spans).end)

\* regex_spans(text) + ml_spans(text), the argument of merge_spans
Candidates(t, tokens) == regex_spans(t) \o ml_spans(tokens, DefaultThreshold)

----------------------------------------------------------------------------
(* check_text  (src/main.py:43-73)                                         *)

\* str.capitalize() on the labels the detectors produce
Capitalize(label) ==
    CASE label = "EMAIL" -> "Email"
      [] label = "URL" -> "Url"
      [] label = "IP" -> "Ip"
      [] label = "PHONE" -> "Phone"
      [] label = "NATIONAL_ID" -> "National_id"
      [] label = "CREDIT_CARD" -> "Credit_card"
      [] label = "PERSON" -> "Person"
      [] label = "ORG" -> "Org"
      [] label = "GPE" -> "Gpe"
      [] label = "ADDRESS" -> "Address"

\* str.upper() on a capitalized label
Upper(label) ==
    CASE label = "Email" -> "EMAIL"
      [] label = "Url" -> "URL"
      [] label = "Ip" -> "IP"
      [] label = "Phone" -> "PHONE"
      [] label = "National_id" -> "NATIONAL_ID"
      [] label = "Credit_card" -> "CREDIT_CARD"
      [] label = "Person" -> "PERSON"
      [] label = "Org" -> "ORG"
      [] label = "Gpe" -> "GPE"
      [] label = "Address" -> "ADDRESS"

CapLabels ==
    {"Email", "Url", "Ip", "Phone", "National_id", "Credit_card",
     "Person", "Org", "Gpe", "Address"}

\* f"{label}_{counters[label]}"
KeyOf(label, n) == label \o "_" \o ToString(n)

\* round(span["score"], 4): scores are whole hundredths, which it leaves alone
Round4(score) == score

\* s placed behind every element whose start is >= its own
\* (sorted(..., reverse=True) keeps equal keys in their original order)
InsertByStartDesc(sorted, s) ==
    LET later == {i \in 1..Len(sorted) : sorted[i].start < s.start}
        at == IF later = {} THEN Len(sorted) + 1
              ELSE CHOOSE i \in later : \A j \in later : i <= j
    IN  SubSeq(sorted, 1, at - 1) \o <<s>> \o SubSeq(sorted, at, Len(sorted))

RECURSIVE SortedByStartDesc(_)
SortedByStartDesc(spans) ==
    IF spans = <<>> THEN <<>>
    ELSE InsertByStartDesc(SortedByStartDesc(SubSeq(spans, 1, Len(spans) - 1)),
                           spans[Len(spans)])

\* the order in which check_text visits the spans
VisitOrder(spans) == SortedByStartDesc(spans)

\* the record appended to results for one span, counters[label] being n
Detection(t, span, n) ==
    LET label == Capitalize(span.label)
    IN  [key |-> KeyOf(label, n),
         label |-> Upper(label),
         score |-> Round4(span.score),
         original |-> Slice(t, span.start, span.end),
         redacted |-> KeyOf(label, n),
         start |-> span.start,
         end |-> span.end]

\* the loop of check_text: counters is the defaultdict(int)
RECURSIVE CheckLoop(_, _, _, _)
CheckLoop(t, rest, counters, results) ==
    IF rest = <<>> THEN results
    ELSE LET span == Head(rest)
             label == Capitalize(span.label)
             n == counters[label] + 1
         IN  CheckLoop(t, Tail(rest), [counters EXCEPT ![label] = n],
                       Append(results, Detection(t, span, n)))

\* return list(reversed(results))
Detections(t, spans) ==
    Reverse(CheckLoop(t, VisitOrder(spans), [l \in CapLabels |-> 0], <<>>))

----------------------------------------------------------------------------
(* Inputs                                                                  *)

MaxCardDigits == 17     \* digit strings of LuhnMinDigits-1 .. MaxCardDigits digits
MaxPos == 3             \* candidate spans lie in 0..MaxPos
MaxCands == 3           \* candidate lists hold up to MaxCands spans
MaxToks == 3            \* token streams hold up to MaxToks tokens

\* a digit string: a first digit, a repeated filler, a last digit
CardDigits(n, first, fill, last) ==
    [i \in 1..n |-> IF i = 1 THEN first ELSE IF i = n THEN last ELSE fill]

\* the digits written in groups of four separated by sep (<<>> for none)
Grouped(ds, sep) ==
    Flatten([i \in 1..Len(ds) |->
                IF i > 1 /\ i % 4 = 1 THEN sep \o <<ds[i]>> ELSE <<ds[i]>>])

CardInputs ==
    {Grouped(CardDigits(n, first, fill, last), sep) :
        n \in (LuhnMinDigits - 1)..MaxCardDigits,
        first \in {"4", "5"}, fill \in {"0", "1", "7"}, last \in DigitChars,
        sep \in {<<>>, <<" ">>, <<"-">>}}

VisaTestCard == Grouped(CardDigits(16, "4", "1", "1"), <<" ">>)

\* candidate spans as the two kinds of detector produce them
CandSpans ==
    {Span(r[1], r[2], src[1], src[2]) :
        r \in {q \in (0..MaxPos) \X (0..MaxPos) : q[1] <= q[2]},
        src \in {<<"EMAIL", 100>>, <<"PERSON", 80>>}}

\* what the classifier says of one token
Predictions ==
    {<<"O", 90>>, <<"B-PER", 50>>, <<"B-PER", 70>>, <<"I-PER", 70>>,
     <<"I-PER", 90>>, <<"I-ORG", 90>>, <<"B-LOC", 70>>, <<"I-MISC", 90>>}

Thresholds == {DefaultThreshold, 80}

\* tokens laid end to end from offset 0, token i being widths[i] wide
RECURSIVE SumTo(_, _)
SumTo(ws, k) == IF k = 0 THEN 0 ELSE ws[k] + SumTo(ws, k - 1)

Stream(shape) ==
    [i \in 1..Len(shape) |->
        Token(SumTo([k \in 1..Len(shape) |-> shape[k][1]], i - 1),
              SumTo([k \in 1..Len(shape) |-> shape[k][1]], i),
              shape[i][2][1], shape[i][2][2])]

TokenStreams == {Stream(sh) : sh \in SeqsUpTo({0, 1} \X Predictions, MaxToks)}

----------------------------------------------------------------------------
(* Specifications of the pure functions                                    *)

InitLuhn ==
    /\ pc = "input"
    /\ card \in CardInputs
    /\ luhn_result = FALSE
    /\ cands = <<>> /\ merged = <<>> /\ remerged = <<>>
    /\ toks = <<>> /\ threshold = DefaultThreshold /\ ner_out = <<>>
    /\ text = <<>> /\ recog = <<>> /\ ret = <<>>
    /\ TEXT_STORE = <<>> /\ request = <<>> /\ response = <<>>

ValidateCard ==
    /\ pc = "input"
    /\ luhn_result' = luhn_ok(card)
    /\ pc' = "validated"
    /\ UNCHANGED <<card, cands, merged, remerged, toks, threshold, ner_out,
                   text, recog, ret, TEXT_STORE, request, response>>

SpecLuhn == InitLuhn /\ [][ValidateCard]_vars

InitMerge ==
    /\ pc = "input"
    /\ cands \in SeqsUpTo(CandSpans, MaxCands)
    /\ merged = <<>> /\ remerged = <<>>
    /\ card = <<>> /\ luhn_result = FALSE
    /\ toks = <<>> /\ threshold = DefaultThreshold /\ ner_out = <<>>
    /\ text = <<>> /\ recog = <<>> /\ ret = <<>>
    /\ TEXT_STORE = <<>> /\ request = <<>> /\ response = <<>>

Merge ==
    /\ pc = "input"
    /\ merged' = merge_spans(cands)
    /\ pc' = "merged"
    /\ UNCHANGED <<card, luhn_result, cands, remerged, toks, threshold, ner_out,
                   text, recog, ret, TEXT_STORE, request, response>>

Remerge ==
    /\ pc = "merged"
    /\ remerged' = merge_spans(merged)
    /\ pc' = "remerged"
    /\ UNCHANGED <<card, luhn_result, cands, merged, toks, threshold, ner_out,
                   text, recog, ret, TEXT_STORE, request, response>>

NextMerge == Merge \/ Remerge

SpecMerge == InitMerge /\ [][NextMerge]_vars

InitNer ==
    /\ pc = "input"
    /\ toks \in TokenStreams
    /\ threshold \in Thresholds
    /\ ner_out = <<>>
    /\ card = <<>> /\ luhn_result = FALSE
    /\ cands = <<>> /\ merged = <<>> /\ remerged = <<>>
    /\ text = <<>> /\ recog = <<>> /\ ret = <<>>
    /\ TEXT_STORE = <<>> /\ request = <<>> /\ response = <<>>

RunNer ==
    /\ pc = "input"
    /\ ner_out' = ml_spans(toks, threshold)
    /\ pc' = "recognized"
    /\ UNCHANGED <<card, luhn_result, cands, merged, remerged, toks, threshold,
                   text, recog, ret, TEXT_STORE, request, response>>

SpecNer == InitNer /\ [][RunNer]_vars

----------------------------------------------------------------------------
(* Texts and what the recognizer returns for them                          *)

MaxWords == 3           \* texts are up to MaxWords words written end to end

Words ==
    {<<"a", "@", "b", ".", "c", "c">>,
     <<"h", "t", "t", "p", ":", "/", "/", "x">>,
     <<"A", "l">>,
     <<" ">>}

WordSeqs == SeqsUpTo(Words, MaxWords)

\* the offset at which word i of ws starts
RECURSIVE WordStart(_, _)
WordStart(ws, i) == IF i = 1 THEN 0 ELSE WordStart(ws, i - 1) + Len(ws[i - 1])

PipePredictions == {<<"O", 90>>, <<"B-PER", 90>>, <<"I-ORG", 70>>}

\* the structural tokens [CLS] and [SEP] of the tokenizer: offsets (0, 0)
StructuralTok == Token(0, 0, "O", 90)

\* one token per word that is not a blank, classified by preds
WordToks(ws, preds) ==
    LET idx == SelectSeq([i \in 1..Len(ws) |-> i], LAMBDA i : ws[i] # <<" ">>)
    IN  [k \in 1..Len(idx) |->
            Token(WordStart(ws, idx[k]), WordStart(ws, idx[k]) + Len(ws[idx[k]]),
                  preds[idx[k]][1], preds[idx[k]][2])]

\* Token streams for the text spelled by ws, its words classified out of
\* predictions; tails are the optional last tokens, of zero width at the end
\* of the text.
StreamsFor(ws, predictions, tails) ==
    {<<StructuralTok>> \o WordToks(ws, preds) \o tail \o <<StructuralTok>> :
        preds \in {f \in [1..Len(ws) -> predictions] :
                      \A i \in 1..Len(ws) : ws[i] = <<" ">> => f[i] = <<"O", 90>>},
        tail \in {<<>>} \cup
                 {<<Token(Len(Flatten(ws)), Len(Flatten(ws)), pr[1], pr[2])>> :
                     pr \in IF ws = <<>> THEN {} ELSE tails}}

\* the recognizer either fails on the text or returns a token stream
RecogFor(ws, predictions, tails) ==
    {[fails |-> TRUE, toks |-> <<>>]}
    \cup {[fails |-> FALSE, toks |-> ts] : ts \in StreamsFor(ws, predictions, tails)}

InputsOver(wordseqs, predictions, tails) ==
    UNION {{[text |-> Flatten(ws), recog |-> r] : r \in RecogFor(ws, predictions, tails)} :
              ws \in wordseqs}

\* the calls of detect_pii and redact
PiiInputs == InputsOver(WordSeqs, PipePredictions, {<<"B-PER", 90>>})

\* the requests to the HTTP handlers
ApiWords == {<<"a", "@", "b", ".", "c", "c">>, <<"A", "l">>, <<" ">>}

ApiInputs ==
    InputsOver(SeqsUpTo(ApiWords, MaxWords), {<<"O", 90>>, <<"B-PER", 90>>}, {})

ApiTexts == {in.text : in \in ApiInputs}

----------------------------------------------------------------------------
(* detect_pii and redact as called by a client  (model.py:105-114, 135-137)*)

InitPii ==
    /\ pc = "input"
    /\ \E in \in PiiInputs : text = in.text /\ recog = in.recog
    /\ ret = <<>>
    /\ card = <<>> /\ luhn_result = FALSE
    /\ cands = <<>> /\ merged = <<>> /\ remerged = <<>>
    /\ toks = <<>> /\ threshold = DefaultThreshold /\ ner_out = <<>>
    /\ TEXT_STORE = <<>> /\ request = <<>> /\ response = <<>>

\* what a call leaves the caller with: a raised exception carries no value
Raised(op) ==
    [op |-> op, raised |-> TRUE, merge_in |-> <<>>, spans |-> <<>>, out |-> <<>>]

\* spans = merge_spans(regex_spans(text) + ml_spans(text)); return spans
detect_pii ==
    /\ pc = "input"
    /\ ret' = IF recog.fails THEN Raised("detect_pii")
              ELSE [op |-> "detect_pii", raised |-> FALSE,
                    merge_in |-> Candidates(text, recog.toks),
                    spans |-> merge_spans(Candidates(text, recog.toks)),
                    out |-> <<>>]
    /\ pc' = "returned"
    /\ UNCHANGED <<card, luhn_result, cands, merged, remerged, toks, threshold,
                   ner_out, text, recog, TEXT_STORE, request, response>>

redact ==
    /\ pc = "input"
    /\ ret' = IF recog.fails THEN Raised("redact")
              ELSE LET spans == merge_spans(Candidates(text, recog.toks))
                   IN  [op |-> "redact", raised |-> FALSE,
                        merge_in |-> Candidates(text, recog.toks),
                        spans |-> spans,
                        out |-> RedactLoop(text, spans, <<>>, 0)]
    /\ pc' = "returned"
    /\ UNCHANGED <<card, luhn_result, cands, merged, remerged, toks, threshold,
                   ner_out, text, recog, TEXT_STORE, request, response>>

NextPii == detect_pii \/ redact

SpecPii == InitPii /\ [][NextPii]_vars

----------------------------------------------------------------------------
(* The HTTP handlers  (src/main.py:32-73)                                  *)

Init ==
    /\ pc = "serving"
    /\ TEXT_STORE = <<>>
    /\ request = [op |-> "none"]
    /\ response = [status |-> 0]
    /\ card = <<>> /\ luhn_result = FALSE
    /\ cands = <<>> /\ merged = <<>> /\ remerged = <<>>
    /\ toks = <<>> /\ threshold = DefaultThreshold /\ ner_out = <<>>
    /\ text = <<>> /\ recog = <<>> /\ ret = <<>>

Untouched ==
    UNCHANGED <<pc, card, luhn_result, cands, merged, remerged, toks, threshold,
                ner_out, text, recog, ret>>

\* POST /text
set_text ==
    \E payload \in ApiTexts :
        /\ TEXT_STORE' = payload
        /\ request' = [op |-> "set_text", text |-> payload]
        /\ response' = [status |-> 200, message |-> "Text stored"]
        /\ Untouched

\* GET /text
get_text ==
    /\ request' = [op |-> "get_text"]
    /\ response' = [status |-> 200, text |-> TEXT_STORE]
    /\ UNCHANGED TEXT_STORE
    /\ Untouched

\* POST /check: an exception out of detect_pii ends the handler before
\* TEXT_STORE is written and the framework answers 500
check_text ==
    \E in \in ApiInputs :
        /\ request' = [op |-> "check_text", text |-> in.text, recog |-> in.recog]
        /\ IF in.recog.fails
           THEN /\ response' = [status |-> 500]
                /\ UNCHANGED TEXT_STORE
           ELSE /\ LET spans == merge_spans(Candidates(in.text, in.recog.toks))
                   IN  response' = [status |-> 200, spans |-> spans,
                                    body |-> Detections(in.text, spans)]
                /\ TEXT_STORE' = in.text
        /\ Untouched

Next == set_text \/ get_text \/ check_text

Spec == Init /\ [][Next]_vars

----------------------------------------------------------------------------
(* Properties of luhn_ok                                                   *)

\* the mod-10 checksum: the digit k places from the right end (k = 1 is the
\* last digit) is doubled when k is even
RECURSIVE Mod10Sum(_, _)
Mod10Sum(digits, k) ==
    IF k > Len(digits) THEN 0
    ELSE LET d == digits[Len(digits) + 1 - k]
         IN  (IF k % 2 = 0 THEN (IF 2 * d > 9 THEN 2 * d - 9 ELSE 2 * d) ELSE d)
             + Mod10Sum(digits, k + 1)

Mod10Valid(s) ==
    LET digits == DigitsOf(s)
    IN  Len(digits) >= 13 /\ Mod10Sum(digits, 1) % 10 = 0

\* C2: luhn_ok(s) is the standard mod-10 check for every input: false below
\* 13 digits, otherwise true exactly when the sum with every second digit from
\* the right doubled is divisible by 10, for even and odd digit counts alike;
\* so 4111 1111 1111 1111 validates true.
C2_LuhnIsMod10 ==
    pc = "validated" => luhn_result = Mod10Valid(card)

----------------------------------------------------------------------------
(* Properties of merge_spans                                               *)

SameStartPair ==
    /\ Len(cands) = 2
    /\ cands[1].start = cands[2].start
    /\ cands[1].end # cands[2].end

LongerOfPair == IF cands[1].end > cands[2].end THEN cands[1] ELSE cands[2]
ShorterOfPair == IF cands[1].end > cands[2].end THEN cands[2] ELSE cands[1]

\* C3 as stated: of two candidates with the same start and different lengths
\* the longer one is in the output of merge_spans, whatever their scores.
C3_LongerAlwaysKept ==
    (pc = "merged" /\ SameStartPair) =>
        \E i \in 1..Len(merged) : merged[i] = LongerOfPair

\* C3 amended: of two candidates with the same start and different lengths
\* merge_spans returns exactly one: the shorter one when its score is strictly
\* higher than the longer one's, and the longer one otherwise.
C3_LongerKeptUnlessOutscored ==
    (pc = "merged" /\ SameStartPair) =>
        merged = IF ShorterOfPair.score > LongerOfPair.score
                 THEN <<ShorterOfPair>> ELSE <<LongerOfPair>>

C3_Witness ==
    /\ pc = "merged" /\ SameStartPair
    /\ ShorterOfPair.score > LongerOfPair.score
    /\ ShorterOfPair.start < ShorterOfPair.end
    /\ merged = <<ShorterOfPair>>

\* C4: the output of merge_spans is ordered by start and non-overlapping:
\* adjacent output spans a, b satisfy a.end <= b.start.
C4_MergedDisjoint ==
    pc \in {"merged", "remerged"} =>
        \A i \in 1..(Len(merged) - 1) :
            /\ merged[i].start <= merged[i + 1].start
            /\ merged[i].end <= merged[i + 1].start

C4_Witness ==
    /\ pc = "merged"
    /\ Len(merged) = 2 /\ Len(cands) = 3
    /\ \E i, j \in 1..Len(cands) :
          i # j /\ cands[i].start < cands[j].end /\ cands[j].start < cands[i].end

\* C5: merge_spans is idempotent: merging its own output returns that output,
\* span for span and in the same order.
C5_MergeIdempotent ==
    pc = "remerged" => remerged = merged

C5_Witness ==
    /\ pc = "remerged"
    /\ Len(merged) = 2 /\ Len(cands) = 3
    /\ merged # SubSeq(cands, 1, 2) /\ merged # SubSeq(cands, 2, 3)
    /\ remerged = merged

----------------------------------------------------------------------------
(* Properties of ml_spans                                                  *)

NerTaxonomy == {"PERSON", "ORG", "GPE", "ADDRESS"}

\* the entity types the remapping ifs of ml_spans name
RemapTable == {"PER", "LOC", "MISC"}

\* C8: every span of ml_spans carries a label of the taxonomy, and a
\* recognizer entity type outside the remapping table is never passed through
\* unchanged as the label of the span covering its token.
C8_NoLabelPassthrough ==
    pc = "recognized" =>
        /\ \A k \in 1..Len(ner_out) : ner_out[k].label \in NerTaxonomy
        /\ \A i \in 1..Len(toks) :
              (toks[i].en # 0 /\ toks[i].label # "O" /\ toks[i].score >= threshold
               /\ Ent(toks[i].label) \notin RemapTable) =>
                  ~\E k \in 1..Len(ner_out) :
                        /\ ner_out[k].start <= toks[i].st
                        /\ toks[i].en <= ner_out[k].end
                        /\ ner_out[k].label = Ent(toks[i].label)

\* the tokens ml_spans considers: those whose end offset is not 0
HasText(tok) == tok.en # 0
ConsideredToks == SelectSeq(toks, HasText)

\* token i is an entity token confident enough
Live(T, i) == T[i].label # "O" /\ T[i].score >= threshold

\* token i is the first of a run
RunStart(T, i) ==
    /\ Live(T, i)
    /\ \/ i = 1
       \/ ~Live(T, i - 1)
       \/ Pref(T[i].label) = "B"
       \/ Ent(T[i].label) # Ent(T[i - 1].label)

\* the last token of the run that starts at i
RunEnd(T, i) ==
    CHOOSE j \in i..Len(T) :
        /\ \A k \in (i + 1)..j : Live(T, k) /\ ~RunStart(T, k)
        /\ j = Len(T) \/ ~Live(T, j + 1) \/ RunStart(T, j + 1)

RunMaxScore(T, i, j) ==
    CHOOSE m \in {T[k].score : k \in i..j} : \A k \in i..j : T[k].score <= m

RunStarts(T) == {i \in 1..Len(T) : RunStart(T, i)}

NthRunStart(T, n) ==
    CHOOSE i \in RunStarts(T) : Cardinality({x \in RunStarts(T) : x < i}) = n - 1

----------------------------------------------------------------------------
(* Properties of the pipeline                                              *)

\* C1: in the list check_text returns, keys are numbered left to right per
\* category: the detection with the n-th smallest start among those of its
\* label has the key "<Label>_n".
C1_KeysLeftToRight ==
    (request.op = "check_text" /\ response.status = 200) =>
        \A i \in 1..Len(response.body) :
            LET d == response.body[i]
                before == {j \in 1..Len(response.body) :
                              /\ response.body[j].label = d.label
                              /\ response.body[j].start < d.start}
            IN  d.key = KeyOf(Capitalize(d.label), Cardinality(before) + 1)

InBounds(c) == 0 <= c.start /\ c.start < c.end /\ c.end <= Len(text)

Original(c) == Slice(text, c.start, c.end)

\* the spans are pairwise disjoint
Disjoint(spans) ==
    \A i, j \in 1..Len(spans) :
        i # j => (spans[i].end <= spans[j].start \/ spans[j].end <= spans[i].start)

\* every occurrence in the text of a span's substring lies inside some span
AllOccurrencesDetected(spans) ==
    \A k \in 1..Len(spans) :
        \A i \in 0..(Len(text) - Len(Original(spans[k]))) :
            Slice(text, i, i + Len(Original(spans[k]))) = Original(spans[k]) =>
                \E m \in 1..Len(spans) :
                    spans[m].start <= i /\ i + Len(Original(spans[k])) <= spans[m].end

\* C6: the string redact returns contains no occurrence of the original
\* substring text[start:end] of any span the detectors produced.  Stated for
\* the calls in which those spans are in bounds and pairwise disjoint and
\* cover every occurrence of their substrings.
C6_NoLeak ==
    (/\ pc = "returned" /\ ret.op = "redact" /\ ~ret.raised
     /\ \A k \in 1..Len(ret.merge_in) : InBounds(ret.merge_in[k])
     /\ Disjoint(ret.merge_in)
     /\ AllOccurrencesDetected(ret.merge_in)) =>
        \A k \in 1..Len(ret.merge_in) :
            ~Contains(ret.out, Original(ret.merge_in[k]))

\* C7: when the recognizer fails, detect_pii and redact report the failure
\* and the caller still gets the spans of the pattern detectors.
C7_PatternSpansSurviveFailure ==
    (pc = "returned" /\ recog.fails) =>
        /\ ret.raised
        /\ ret.spans = merge_spans(regex_spans(text))

\* C9: every span that detect_pii or redact hands to merge_spans satisfies
\* 0 <= start < end <= len(text).
C9_OnlyValidSpansMerged ==
    (pc = "returned" /\ ~ret.raised) =>
        \A k \in 1..Len(ret.merge_in) : InBounds(ret.merge_in[k])

====
